---- MODULE Spec2Model ----
(***************************************************************************)
(* Attachment lifecycle of exchangelib (src/exchangelib/attachments.py)    *)
(* over the element base classes of src/exchangelib/properties.py.         *)
(*                                                                         *)
(* One parent Item holds a change key; FileAttachment instances are        *)
(* attached to it, detached from it, and their payload is read lazily; an  *)
(* ItemAttachment instance has its nested item read lazily.                *)
(* The service classes CreateAttachment, DeleteAttachment and GetAttachment*)
(* are the collaborator: every call returns a sequence of results chosen   *)
(* nondeterministically, each an exception object or a response element.   *)
(* Every handler is one atomic step (single-threaded use).                 *)
(***************************************************************************)
EXTENDS Integers, Sequences, FiniteSets, TLC

\* ------------------------------------------------------------------ bounds
\* change keys are 0..MaxTok
MaxTok == 2
\* total number of collaborator calls in one behaviour
MaxCalls == 3

\* ------------------------------------------------------------- value sets
\* Python's None: written "None" in a string-valued slot (ids, change keys,
\* account, exception names) and NoneObj in an object-valued slot
\* (attachment ids, byte strings, XML nodes and their text).
None == "None"
NoneObj == [none |-> TRUE]
\* a bytes object and a text string, by their elements
bytes(seq) == [bytes |-> seq]
str(seq) == [chars |-> seq]
\* the FileAttachment instances and the ItemAttachment instances
Atts == {"att1", "att2"}
ItemAtts == {"att3", "att4"}
\* an Item object held in the _item slot of an ItemAttachment
ItemObj(x) == [item |-> x]
Tokens == {ToString(i) : i \in 0..MaxTok}
\* the parent item's item_id, and another item's id
ITEM_ID == "item-id"
OTHER_ITEM_ID == "other-item-id"
ItemIds == {ITEM_ID, OTHER_ITEM_ID}
AttIds == {"attachment-id"}
\* error objects the collaborator can hand back for one item
Errors == {"ErrorItemNotFound", "ErrorAccessDenied"}
\* byte strings a caller sets as content
Bytes == {bytes(<< >>), bytes(<<66>>)}

VARIABLES
    account,        \* parent_item.account: None or the account
    changekey,      \* parent_item.changekey
    parent_item,    \* [Atts -> {None, "item"}]: Attachment.parent_item
    attachment_id,  \* [Atts -> {None} \cup AttachmentId records]
    _content,       \* [Atts -> {None} \cup byte strings]: FileAttachment._content
    _item,          \* [ItemAtts -> {None} \cup Item objects]: ItemAttachment._item
    last,           \* what the most recent handler call did
    ncalls,         \* number of collaborator calls made so far
    calc,           \* the element operation under evaluation (SpecElem)
    fields,         \* the classes' FIELDS and _fields_map (SpecFields)
    conc            \* the threads and the server of interleaved calls (SpecConc)

vars == <<account, changekey, parent_item, attachment_id, _content, _item,
          last, ncalls, calc, fields, conc>>

\* the value of a variable that a specification does not use
Idle == [idle |-> TRUE]

\* ------------------------------------------------------------ AttachmentId
\* attachments.py:18-32: id, root_id, root_changekey
AttachmentId(id, root_id, root_changekey) ==
    [id |-> id, root_id |-> root_id, root_changekey |-> root_changekey]

\* the attachment id of an attachment that from_xml decoded from a response
\* other than a creation response: it carries no root fields
DecodedId == AttachmentId("decoded-id", None, None)

\* ------------------------------------------------------------- base64
\* The base64 alphabet of base64.b64decode (attachments.py:159)
B64Alphabet ==
    << "A","B","C","D","E","F","G","H","I","J","K","L","M","N","O","P",
       "Q","R","S","T","U","V","W","X","Y","Z","a","b","c","d","e","f",
       "g","h","i","j","k","l","m","n","o","p","q","r","s","t","u","v",
       "w","x","y","z","0","1","2","3","4","5","6","7","8","9","+","/" >>

B64Val(c) == (CHOOSE i \in 1..64 : B64Alphabet[i] = c) - 1

RECURSIVE B64Bytes(_)
\* the bytes of a sequence of sextets: 4 sextets give 3 bytes, a trailing
\* group of 3 gives 2 bytes and of 2 gives 1 byte
B64Bytes(s) ==
    IF Len(s) >= 4
    THEN << s[1] * 4 + (s[2] \div 16),
            (s[2] % 16) * 16 + (s[3] \div 4),
            (s[3] % 4) * 64 + s[4] >> \o B64Bytes(SubSeq(s, 5, Len(s)))
    ELSE IF Len(s) = 3
    THEN << s[1] * 4 + (s[2] \div 16), (s[2] % 16) * 16 + (s[3] \div 4) >>
    ELSE IF Len(s) = 2
    THEN << s[1] * 4 + (s[2] \div 16) >>
    ELSE << >>

\* base64.b64decode(s) as called at attachments.py:159. s is None or a string
\* of characters of the alphabet followed by '=' padding: None is no
\* bytes-like object or ASCII string (TypeError), a string whose data
\* characters are not made up to a multiple of four by the padding is
\* rejected (binascii.Error).
\* Result: [exc |-> exception name or None, val |-> bytes]
b64decode(s) ==
    IF s = NoneObj
    THEN [exc |-> "TypeError", val |-> NoneObj]
    ELSE LET text == s.chars
             pads == {i \in 1..Len(text) : text[i] = "="}
             n    == IF pads = {} THEN Len(text)
                     ELSE (CHOOSE i \in pads : \A j \in pads : i <= j) - 1
             data == [i \in 1..n |-> B64Val(text[i])]
             need == IF n % 4 = 0 THEN 0 ELSE 4 - (n % 4)
         IN  IF n % 4 = 1 \/ Cardinality(pads) < need
             THEN [exc |-> "binascii.Error", val |-> NoneObj]
             ELSE [exc |-> None, val |-> bytes(B64Bytes(data))]

\* ------------------------------------------------- collaborator results
\* One result of a service call is an exception object, a tuple, a response
\* element, or no element at all (NoneObj).
Exception(e) == [exception |-> e]
\* isinstance(i, Exception) at attachments.py:73, 78, 96, 101, 151
IsException(i) == "exception" \in DOMAIN i
\* isinstance(elem, tuple) at attachments.py:153
IsTuple(i) == "tuple" \in DOMAIN i

\* properties.py:131-133: the tag a response element of a class carries
response_tag(ELEMENT_NAME) == ELEMENT_NAME

\* the items of a CreateAttachment response: a FileAttachment element with
\* its AttachmentId child (or without one), an element of another tag, no
\* element, an exception
CreateElems ==
    [tag : {"FileAttachment"},
     attachment_id : {NoneObj} \cup
        [id : AttIds, root_id : ItemIds \cup {None},
         root_changekey : Tokens \cup {None}]]
    \cup {[tag |-> "ItemAttachment", attachment_id |-> NoneObj]}
CreateItems == {Exception(e) : e \in Errors} \cup {NoneObj} \cup CreateElems

\* the items of a DeleteAttachment response: a RootItemId element with its
\* two attributes, an element of another tag, no element, an exception
DeleteElems ==
    [tag : {"RootItemId"}, id : ItemIds, changekey : Tokens]
    \cup {[tag |-> "ItemId", id |-> ITEM_ID, changekey |-> "0"]}
DeleteItems == {Exception(e) : e \in Errors} \cup {NoneObj} \cup DeleteElems

\* the items of a GetAttachment response: an element without a Content
\* child (find gives None), with an empty Content child (the parser leaves
\* the text of an empty element None; an element built by hand may carry
\* the empty string), with base64 text "QQ==" or the truncated "QQ"; a
\* tuple; an exception
ContentNodes ==
    {NoneObj, [text |-> NoneObj], [text |-> str(<< >>)],
     [text |-> str(<<"Q", "Q", "=", "=">>)], [text |-> str(<<"Q", "Q">>)]}
GetElems == [tag : {"FileAttachment"}, Content : ContentNodes]
GetItems == {Exception(e) : e \in Errors} \cup {[tuple |-> TRUE]} \cup GetElems

\* the result sequences a call can return for a one-item request: the one
\* result the contract promises, none, or two (an exception and then
\* another exception or no element)
Responses(S) ==
    {<< >>} \cup {<<i>> : i \in S}
    \cup {<<Exception("ErrorItemNotFound"), i>> :
            i \in {Exception("ErrorAccessDenied"), NoneObj}}

\* ------------------------------------------------------------- from_xml
\* the parameters each from_xml classmethod takes; none has a default, and a
\* call that passes another set of arguments raises TypeError
\* attachments.py:168-169: FileAttachment.from_xml(cls, elem, account)
FileAttachment_from_xml_params == {"elem", "account"}
\* properties.py:227-228: ItemId.from_xml(cls, elem), inherited by RootItemId
ItemId_from_xml_params == {"elem"}

\* attachments.py:168-176. Result: [exc, val]
FileAttachment_from_xml(kwargs, elem) ==
    IF kwargs # FileAttachment_from_xml_params
    THEN [exc |-> "TypeError", val |-> NoneObj]
    ELSE IF elem = NoneObj
    THEN [exc |-> None, val |-> NoneObj]
    ELSE IF elem.tag # response_tag("FileAttachment")
    THEN [exc |-> "AssertionError", val |-> NoneObj]
    ELSE [exc |-> None, val |-> [attachment_id |-> elem.attachment_id]]

\* properties.py:227-234 through RootItemId (properties.py:251-259).
\* Result: [exc, val]
RootItemId_from_xml(kwargs, elem) ==
    IF kwargs # ItemId_from_xml_params
    THEN [exc |-> "TypeError", val |-> NoneObj]
    ELSE IF elem = NoneObj
    THEN [exc |-> None, val |-> NoneObj]
    ELSE IF elem.tag # response_tag("RootItemId")
    THEN [exc |-> "AssertionError", val |-> NoneObj]
    ELSE [exc |-> None, val |-> [id |-> elem.id, changekey |-> elem.changekey]]

\* list(i if isinstance(i, Exception) else from_xml(i) for i in results),
\* given each result's [exc, val] (an exception object is kept as it is; any
\* other result is what from_xml makes of it): the results are taken in
\* order, and the first from_xml that raises ends the comprehension
\* (attachments.py:72-75, 95-98). Result: [exc, list]
DecodeList(decoded) ==
    LET raising == {k \in DOMAIN decoded : decoded[k].exc # None}
    IN  IF raising # {}
        THEN [exc  |-> decoded[CHOOSE k \in raising :
                                 \A j \in raising : k <= j].exc,
              list |-> << >>]
        ELSE [exc  |-> None,
              list |-> [k \in DOMAIN decoded |-> decoded[k].val]]

\* a variant of raised: the error is replaced by a generic one
raised_generic(i) == "Exception"

\* attachments.py:78-79, 101-102, 151-152: an exception object among the
\* results is raised as it is
raised(i) == i.exception

\* ------------------------------------------------------ handler outcomes
\* What a handler call leaves behind: the exception it raised (None when it
\* returned), the number of collaborator calls it made and the request it
\* sent, the number of assignments it made to parent_item.changekey, and
\* the values of the fields it can assign.
Outcome(exc, calls, req, writes, ck, par, aid, cont) ==
    [exc |-> exc, calls |-> calls, req |-> req, writes |-> writes,
     changekey |-> ck, parent_item |-> par, attachment_id |-> aid,
     _content |-> cont]

\* a handler that raises exc leaves every field as it was
Raise(exc, calls, req, self, item) ==
    Outcome(exc, calls, req, 0, item.changekey, self.parent_item,
            self.attachment_id, self._content)

\* ---------------------------------------------------------------- attach
\* a variant of attach_precondition: an attachment that has an id passes
attach_precondition_no_id_check(self, item) ==
    IF self.parent_item = None \/ item.account = None THEN "ValueError"
    ELSE None

\* attachments.py:68-71: the exception the preconditions raise, or None.
\* An AttachmentId, an Item and an account are truthy objects; None is not.
attach_precondition(self, item) ==
    IF self.attachment_id # NoneObj THEN "ValueError"
    ELSE IF self.parent_item = None \/ item.account = None THEN "ValueError"
    ELSE None

\* a variant of attach_asserts: the change key is not compared
attach_asserts_root_id_only(att_id, item) ==
    att_id.root_id = item.item_id

\* attachments.py:81-82: the two assertions on the returned attachment id
attach_asserts(att_id, item) ==
    /\ att_id.root_id = item.item_id
    /\ att_id.root_changekey # item.changekey

\* a variant of attach_strip: the root fields are kept
attach_strip_nothing(att_id) == att_id

\* attachments.py:85-86: root_id and root_changekey are set to None
attach_strip(att_id) ==
    [att_id EXCEPT !.root_id = None, !.root_changekey = None]

\* a variant of attach_commit: the parent's change key is left as it was
attach_commit_keeps_changekey(self, item, req, att_id) ==
    Outcome(None, 1, req, 0, item.changekey,
            self.parent_item, [att_id EXCEPT !.root_id = None,
                                             !.root_changekey = None],
            self._content)

\* a variant of attach_commit: the attachment id is not stored
attach_commit_drops_id(self, item, req, att_id) ==
    Outcome(None, 1, req, 1, att_id.root_changekey,
            self.parent_item, self.attachment_id, self._content)

\* attachments.py:83-87: the parent's change key takes the returned one, and
\* the returned attachment id is stored without its root fields
attach_commit(self, item, req, att_id) ==
    Outcome(None, 1, req, 1, att_id.root_changekey,
            self.parent_item, attach_strip(att_id), self._content)

\* attachments.py:76-87: what attach does with the decoded list
attach_result(self, item, req, items) ==
    IF Len(items) # 1
    THEN Raise("AssertionError", 1, req, self, item)
    ELSE LET root_item_id == items[1] IN
    IF IsException(root_item_id)
    THEN Raise(raised(root_item_id), 1, req, self, item)
    ELSE IF root_item_id = NoneObj
    THEN Raise("AttributeError", 1, req, self, item)
    ELSE LET att_id == root_item_id.attachment_id IN
    IF att_id = NoneObj
    THEN Raise("AttributeError", 1, req, self, item)
    ELSE IF ~attach_asserts(att_id, item)
    THEN Raise("AssertionError", 1, req, self, item)
    ELSE attach_commit(self, item, req, att_id)

\* attachments.py:66-87: Attachment.attach on a FileAttachment; results is
\* what CreateAttachment(...).call(parent_item=..., items=[self]) returns
attach(self, item, results) ==
    IF attach_precondition(self, item) # None
    THEN Raise(attach_precondition(self, item), 0, NoneObj, self, item)
    ELSE LET req == [service |-> "CreateAttachment", items |-> <<self>>]
             decoded == DecodeList([k \in DOMAIN results |->
                 IF IsException(results[k])
                 THEN [exc |-> None, val |-> results[k]]
                 ELSE FileAttachment_from_xml({"elem", "account"}, results[k])])
         IN  IF decoded.exc # None
             THEN Raise(decoded.exc, 1, req, self, item)
             ELSE attach_result(self, item, req, decoded.list)

\* ---------------------------------------------------------------- detach
\* a variant of detach_precondition: only the attachment id is checked
detach_precondition_id_only(self, item) ==
    IF self.attachment_id = NoneObj THEN "ValueError"
    ELSE None

\* attachments.py:91-94: the exception the preconditions raise, or None
detach_precondition(self, item) ==
    IF self.attachment_id = NoneObj THEN "ValueError"
    ELSE IF self.parent_item = None \/ item.account = None THEN "ValueError"
    ELSE None

\* attachments.py:103-104: the two assertions on the returned root item id
detach_asserts(root_item_id, item) ==
    /\ root_item_id.id = item.item_id
    /\ root_item_id.changekey # item.changekey

\* attachments.py:105-107: the parent's change key takes the returned one,
\* and the parent reference and the attachment id are cleared
detach_commit(self, item, req, root_item_id) ==
    Outcome(None, 1, req, 1, root_item_id.changekey,
            None, NoneObj, self._content)

\* attachments.py:99-107: what detach does with the decoded list
detach_result(self, item, req, items) ==
    IF Len(items) # 1
    THEN Raise("AssertionError", 1, req, self, item)
    ELSE LET root_item_id == items[1] IN
    IF IsException(root_item_id)
    THEN Raise(raised(root_item_id), 1, req, self, item)
    ELSE IF root_item_id = NoneObj
    THEN Raise("AttributeError", 1, req, self, item)
    ELSE IF ~detach_asserts(root_item_id, item)
    THEN Raise("AssertionError", 1, req, self, item)
    ELSE detach_commit(self, item, req, root_item_id)

\* attachments.py:89-107: Attachment.detach; results is what
\* DeleteAttachment(...).call(items=[self.attachment_id]) returns. Line 96
\* calls RootItemId.from_xml(elem=i, account=...), and the from_xml that
\* RootItemId inherits takes elem alone (properties.py:227-228).
detach(self, item, results) ==
    IF detach_precondition(self, item) # None
    THEN Raise(detach_precondition(self, item), 0, NoneObj, self, item)
    ELSE LET req == [service |-> "DeleteAttachment",
                     items |-> <<self.attachment_id>>]
             decoded == DecodeList([k \in DOMAIN results |->
                 IF IsException(results[k])
                 THEN [exc |-> None, val |-> results[k]]
                 ELSE RootItemId_from_xml({"elem", "account"}, results[k])])
         IN  IF decoded.exc # None
             THEN Raise(decoded.exc, 1, req, self, item)
             ELSE detach_result(self, item, req, decoded.list)

\* --------------------------------------------------------------- content
\* a variant of content_is_local: fetched content is not reused
content_is_local_unattached_only(self) ==
    self.attachment_id = NoneObj

\* attachments.py:140-143: the read is served from the instance
content_is_local(self) ==
    self.attachment_id = NoneObj \/ self._content # NoneObj

\* attachments.py:155-159: the payload of a response element
content_decode(elem) ==
    LET val == elem.Content IN
    IF val = NoneObj
    THEN [exc |-> None, val |-> NoneObj]
    ELSE b64decode(val.text)

\* attachments.py:138-161: the content property of a FileAttachment; elems
\* is what GetAttachment(...).call(items=[self.attachment_id],
\* include_mime_content=False) returns. The value returned is self._content.
content(self, item, elems) ==
    IF content_is_local(self)
    THEN Outcome(None, 0, NoneObj, 0, item.changekey, self.parent_item,
                 self.attachment_id, self._content)
    ELSE IF self.parent_item = None \/ item.account = None
    THEN Raise("ValueError", 0, NoneObj, self, item)
    ELSE LET req == [service |-> "GetAttachment",
                     items |-> <<self.attachment_id>>,
                     include_mime_content |-> FALSE] IN
    IF Len(elems) # 1
    THEN Raise("AssertionError", 1, req, self, item)
    ELSE LET elem == elems[1] IN
    IF IsException(elem)
    THEN Raise(raised(elem), 1, req, self, item)
    ELSE IF IsTuple(elem)
    THEN Raise("AssertionError", 1, req, self, item)
    ELSE IF content_decode(elem).exc # None
    THEN Raise(content_decode(elem).exc, 1, req, self, item)
    ELSE Outcome(None, 1, req, 0, item.changekey, self.parent_item,
                 self.attachment_id, content_decode(elem).val)

\* attachments.py:163-166: the content setter; value is a bytes object or
\* something else (None)
content_setter(self, item, value) ==
    IF "bytes" \notin DOMAIN value
    THEN Raise("AssertionError", 0, NoneObj, self, item)
    ELSE Outcome(None, 0, NoneObj, 0, item.changekey, self.parent_item,
                 self.attachment_id, value)

\* ------------------------------------------------------------------ item
\* the items of a GetAttachment response to an ItemAttachment's request: an
\* ItemAttachment element with or without its AttachmentId child and with
\* or without the nested Item, an element of another tag, no element, an
\* exception
GetItemElems ==
    [tag : {"ItemAttachment"}, attachment_id : {NoneObj, DecodedId},
     Item : {NoneObj, ItemObj("fetched")}]
    \cup {[tag |-> "FileAttachment", attachment_id |-> DecodedId,
           Item |-> ItemObj("fetched")]}
GetItemItems ==
    {Exception(e) : e \in Errors} \cup {NoneObj} \cup GetItemElems

\* attachments.py:223-224: ItemAttachment.from_xml(cls, elem, account)
ItemAttachment_from_xml_params == {"elem", "account"}

\* attachments.py:223-231: the decoded ItemAttachment has the attachment id
\* and the nested item of the element and no parent item. Result: [exc, val]
ItemAttachment_from_xml(kwargs, elem) ==
    IF kwargs # ItemAttachment_from_xml_params
    THEN [exc |-> "TypeError", val |-> NoneObj]
    ELSE IF elem = NoneObj
    THEN [exc |-> None, val |-> NoneObj]
    ELSE IF elem.tag # response_tag("ItemAttachment")
    THEN [exc |-> "AssertionError", val |-> NoneObj]
    ELSE [exc |-> None,
          val |-> [parent_item |-> None, attachment_id |-> elem.attachment_id,
                   _item |-> elem.Item]]

\* a variant of item_is_local: an item held by an attachment that has an
\* id is not reused
item_is_local_unattached_only(self) ==
    self.attachment_id = NoneObj

\* attachments.py:197-200: the read is served from the instance
item_is_local(self) ==
    self.attachment_id = NoneObj \/ self._item # NoneObj

\* attachments.py:213: attachment.item, the item property read on the
\* attachment that from_xml decoded: it is served from the decoded instance
\* (lines 197-200), and otherwise raises at line 202-203, the decoded
\* instance having no parent item. Result: [exc, val]
decoded_item(attachment) ==
    IF attachment = NoneObj
    THEN [exc |-> "AttributeError", val |-> NoneObj]
    ELSE IF item_is_local(attachment)
    THEN [exc |-> None, val |-> attachment._item]
    ELSE [exc |-> "ValueError", val |-> NoneObj]

\* What a read or an assignment of item leaves behind: as Outcome, with the
\* only field such a call can assign
ItemOutcome(exc, calls, req, it) ==
    [exc |-> exc, calls |-> calls, req |-> req, writes |-> 0, _item |-> it]

\* attachments.py:209-215: what the item read does with the decoded list
item_result(self, req, items) ==
    IF Len(items) # 1
    THEN ItemOutcome("AssertionError", 1, req, self._item)
    ELSE LET attachment == items[1] IN
    IF IsException(attachment)
    THEN ItemOutcome(raised(attachment), 1, req, self._item)
    ELSE IF decoded_item(attachment).exc # None
    THEN ItemOutcome(decoded_item(attachment).exc, 1, req, self._item)
    ELSE IF decoded_item(attachment).val = NoneObj
    THEN ItemOutcome("AssertionError", 1, req, self._item)
    ELSE ItemOutcome(None, 1, req, decoded_item(attachment).val)

\* attachments.py:195-215: the item property of an ItemAttachment; results
\* is what GetAttachment(...).call(items=[self.attachment_id],
\* include_mime_content=True) returns. The value returned is self._item.
item_getter(self, acct, results) ==
    IF item_is_local(self)
    THEN ItemOutcome(None, 0, NoneObj, self._item)
    ELSE IF self.parent_item = None \/ acct = None
    THEN ItemOutcome("ValueError", 0, NoneObj, self._item)
    ELSE LET req == [service |-> "GetAttachment",
                     items |-> <<self.attachment_id>>,
                     include_mime_content |-> TRUE]
             decoded == DecodeList([k \in DOMAIN results |->
                 IF IsException(results[k])
                 THEN [exc |-> None, val |-> results[k]]
                 ELSE ItemAttachment_from_xml({"elem", "account"}, results[k])])
         IN  IF decoded.exc # None
             THEN ItemOutcome(decoded.exc, 1, req, self._item)
             ELSE item_result(self, req, decoded.list)

\* attachments.py:217-221: the item setter; value is an Item or something
\* else (None)
item_setter(self, value) ==
    IF "item" \notin DOMAIN value
    THEN ItemOutcome("AssertionError", 0, NoneObj, self._item)
    ELSE ItemOutcome(None, 0, NoneObj, value)

\* ------------------------------------------------------- equality, hash
\* attachments.py:27-32: AttachmentId.__slots__
AttachmentId_slots == <<"id", "root_id", "root_changekey">>

\* attachments.py:50-51, 132: the slots of a FileAttachment that the
\* attachment runs carry; the other slots hold None throughout these runs
FileAttachment_slots == <<"parent_item", "attachment_id", "_content">>

\* hash(tuple(...)), properties.py:163 and attachments.py:111: two tuples
\* have the same hash when they have the same length and the same items
hash_tuple(self, slots) ==
    [len |-> Len(slots), items |-> [k \in 1..Len(slots) |-> self[slots[k]]]]

\* properties.py:162-163: EWSElement.__hash__, the tuple of all the slots
EWSElement_hash(self, slots) == hash_tuple(self, slots)

\* a variant of Attachment_hash: the tuple of the attributes at all times
Attachment_hash_tuple_always(self) ==
    hash_tuple(self, SubSeq(FileAttachment_slots, 2, Len(FileAttachment_slots)))

\* attachments.py:109-112: Attachment.__hash__, the tuple of __slots__[1:]
\* while attachment_id is None, the hash of the attachment id afterwards
Attachment_hash(self) ==
    IF self.attachment_id = NoneObj
    THEN hash_tuple(self, SubSeq(FileAttachment_slots, 2, Len(FileAttachment_slots)))
    ELSE EWSElement_hash(self.attachment_id, AttachmentId_slots)

\* hash(self) == hash(other) on two hashes (properties.py:160)
hash_eq(h1, h2) ==
    h1.len = h2.len /\ h1.items = h2.items

\* properties.py:159-160: EWSElement.__eq__ on two attachments
Attachment_eq(self, other) ==
    hash_eq(Attachment_hash(self), Attachment_hash(other))

\* ----------------------------------------------------------------- state
\* the attachment a as the handlers see it
Self(a) ==
    [parent_item |-> parent_item[a], attachment_id |-> attachment_id[a],
     _content |-> _content[a]]

\* the parent item (the one Item of the model)
Item == [item_id |-> ITEM_ID, changekey |-> changekey, account |-> account]

\* Attachment.__init__, FileAttachment.__init__ and ItemAttachment.__init__
\* (attachments.py:53-55, 134-136, 191-193): attachments are constructed by
\* the caller without an attachment id, or by from_xml (attachments.py:
\* 168-176, 223-231) with the attachment id of the response, and are bound
\* to the parent item or not. The payload starts absent; the setters give
\* the states of an attachment constructed with one. The second attachment
\* is one the caller constructs on the parent item.
Init ==
    /\ account \in {None, "account"}
    /\ changekey = "0"
    /\ parent_item \in {p \in [Atts -> {None, "item"}] : p["att2"] = "item"}
    /\ attachment_id \in
          {i \in [Atts -> {NoneObj, DecodedId}] : i["att2"] = NoneObj}
    /\ _content = [a \in Atts |-> NoneObj]
    /\ _item = Idle
    /\ calc = Idle /\ fields = Idle /\ conc = Idle
    /\ last = [op |-> "init", att |-> None, exc |-> None, calls |-> 0,
               req |-> NoneObj, results |-> << >>, writes |-> 0]
    /\ ncalls = 0

\* The call op on attachment a with outcome r: the fields take the values
\* the handler left, and last records the call: its exception, the request
\* it sent and the results the collaborator returned for it (none without
\* a request).
Apply(op, a, results, r) ==
    /\ changekey' = r.changekey
    /\ parent_item' = [parent_item EXCEPT ![a] = r.parent_item]
    /\ attachment_id' = [attachment_id EXCEPT ![a] = r.attachment_id]
    /\ _content' = [_content EXCEPT ![a] = r._content]
    /\ last' = [op |-> op, att |-> a, exc |-> r.exc, calls |-> r.calls,
                req |-> r.req,
                results |-> IF r.calls = 0 THEN << >> ELSE results,
                writes |-> r.writes]
    /\ ncalls' = ncalls + r.calls
    /\ UNCHANGED <<account, _item, calc, fields, conc>>

Attach(a, results) ==
    /\ ncalls < MaxCalls
    /\ Apply("attach", a, results, attach(Self(a), Item, results))

Detach(a, results) ==
    /\ ncalls < MaxCalls
    /\ Apply("detach", a, results, detach(Self(a), Item, results))

ReadContent(a, elems) ==
    /\ ncalls < MaxCalls
    /\ Apply("content", a, elems, content(Self(a), Item, elems))

SetContent(a, value) ==
    /\ ncalls < MaxCalls
    /\ Apply("content.setter", a, << >>, content_setter(Self(a), Item, value))

\* the ItemAttachment a as the handlers see it
ItemSelf(a) ==
    [parent_item |-> parent_item[a], attachment_id |-> attachment_id[a],
     _item |-> _item[a]]

\* the call op on the ItemAttachment a with outcome r
ApplyItem(op, a, results, r) ==
    /\ _item' = [_item EXCEPT ![a] = r._item]
    /\ last' = [op |-> op, att |-> a, exc |-> r.exc, calls |-> r.calls,
                req |-> r.req,
                results |-> IF r.calls = 0 THEN << >> ELSE results,
                writes |-> r.writes]
    /\ ncalls' = ncalls + r.calls
    /\ UNCHANGED <<account, changekey, parent_item, attachment_id, _content,
                   calc, fields, conc>>

ReadItem(a, results) ==
    /\ ncalls < MaxCalls
    /\ ApplyItem("item", a, results, item_getter(ItemSelf(a), account, results))

SetItem(a, value) ==
    /\ ncalls < MaxCalls
    /\ ApplyItem("item.setter", a, << >>, item_setter(ItemSelf(a), value))

Next ==
    \/ \E a \in Atts, results \in Responses(CreateItems) : Attach(a, results)
    \/ \E a \in Atts, results \in Responses(DeleteItems) : Detach(a, results)
    \/ \E a \in Atts, elems \in Responses(GetItems) : ReadContent(a, elems)
    \/ \E a \in Atts, value \in Bytes \cup {NoneObj} : SetContent(a, value)

Spec == Init /\ [][Next]_vars

\* -------------------------------------------------- ItemAttachment runs
\* ItemAttachment.__init__ (attachments.py:191-193) and from_xml
\* (attachments.py:223-231): the ItemAttachment is constructed by the caller
\* without an attachment id or decoded with one, and is bound to the parent
\* item or not; the nested item starts absent
InitItem ==
    /\ account \in {None, "account"}
    /\ changekey = "0"
    /\ parent_item \in [ItemAtts -> {None, "item"}]
    /\ attachment_id \in [ItemAtts -> {NoneObj, DecodedId}]
    /\ _item = [a \in ItemAtts |-> NoneObj]
    /\ _content = Idle
    /\ calc = Idle /\ fields = Idle /\ conc = Idle
    /\ last = [op |-> "init", att |-> None, exc |-> None, calls |-> 0,
               req |-> NoneObj, results |-> << >>, writes |-> 0]
    /\ ncalls = 0

NextItem ==
    \/ \E a \in ItemAtts, results \in Responses(GetItemItems) : ReadItem(a, results)
    \/ \E a \in ItemAtts, value \in {ItemObj("local"), NoneObj} : SetItem(a, value)

SpecItem == InitItem /\ [][NextItem]_vars

\* ------------------------------------------------------- payload runs
\* Runs of the payload reads and setters of both kinds of attachment on one
\* parent item: a FileAttachment and an ItemAttachment, each constructed by
\* the caller without an attachment id or decoded with one, and bound to
\* the parent item or not
PayloadAtts == {"att1", "att3"}

InitPayload ==
    /\ account \in {None, "account"}
    /\ changekey = "0"
    /\ parent_item \in [PayloadAtts -> {None, "item"}]
    /\ attachment_id \in [PayloadAtts -> {NoneObj, DecodedId}]
    /\ _content = [a \in PayloadAtts \cap Atts |-> NoneObj]
    /\ _item = [a \in PayloadAtts \cap ItemAtts |-> NoneObj]
    /\ calc = Idle /\ fields = Idle /\ conc = Idle
    /\ last = [op |-> "init", att |-> None, exc |-> None, calls |-> 0,
               req |-> NoneObj, results |-> << >>, writes |-> 0]
    /\ ncalls = 0

NextPayload ==
    \/ \E a \in PayloadAtts \cap Atts, elems \in Responses(GetItems) :
          ReadContent(a, elems)
    \/ \E a \in PayloadAtts \cap Atts, value \in Bytes \cup {NoneObj} :
          SetContent(a, value)
    \/ \E a \in PayloadAtts \cap ItemAtts, results \in Responses(GetItemItems) :
          ReadItem(a, results)
    \/ \E a \in PayloadAtts \cap ItemAtts, value \in {ItemObj("local"), NoneObj} :
          SetItem(a, value)

SpecPayload == InitPayload /\ [][NextPayload]_vars

\* ============================================================== entities
\* Runs of the element engine of properties.py: one entity is constructed,
\* assigned to, cleaned, encoded, decoded and compared. The variable calc
\* holds the most recent operation, its operands and its result.

\* native values: a string, an integer, a boolean
text(s) == [text |-> s]
int(n) == [int |-> n]
bool(b) == [bool |-> b]

\* properties.py:199-259: ItemId, ParentItemId, RootItemId
IdClasses == {"ItemId", "ParentItemId", "RootItemId"}

\* the entity classes of these runs
Classes == IdClasses \cup {"Mailbox", "FileAttachment"}

\* properties.py:265: Mailbox.MAILBOX_TYPES
MAILBOX_TYPES ==
    {"Mailbox", "PublicDL", "PrivateDL", "Contact", "PublicFolder",
     "Unknown", "OneOff"}

\* a field descriptor with the defaults of the field constructors: not
\* read-only, not a list, not required, no choices, no default
Field(name, field_uri) ==
    [name |-> name, field_uri |-> field_uri, is_read_only |-> FALSE,
     is_list |-> FALSE, is_required |-> FALSE, choices |-> {},
     default |-> NoneObj]

\* properties.py:204-205 and 256-257: ID_ATTR and CHANGEKEY_ATTR
ID_ATTR(cls) == IF cls = "RootItemId" THEN "RootItemId" ELSE "Id"
CHANGEKEY_ATTR(cls) ==
    IF cls = "RootItemId" THEN "RootItemChangeKey" ELSE "ChangeKey"

\* properties.py:206-209: ItemId.FIELDS, inherited by the two subclasses
ItemId_FIELDS(cls) ==
    << [Field("id", ID_ATTR("ItemId")) EXCEPT !.is_required = TRUE],
       [Field("changekey", CHANGEKEY_ATTR("ItemId")) EXCEPT !.is_required = TRUE] >>

\* properties.py:267-273: Mailbox.FIELDS
Mailbox_FIELDS ==
    << Field("name", "Name"),
       Field("email_address", "EmailAddress"),
       [Field("mailbox_type", "MailboxType")
          EXCEPT !.choices = MAILBOX_TYPES, !.default = text("Mailbox")],
       Field("item_id", "ItemId") >>

\* attachments.py:39-48: Attachment.FIELDS
Attachment_FIELDS ==
    << Field("attachment_id", "AttachmentId"),
       Field("name", "Name"),
       Field("content_type", "ContentType"),
       Field("content_id", "ContentId"),
       Field("content_location", "ContentLocation"),
       [Field("size", "Size") EXCEPT !.is_read_only = TRUE],
       Field("last_modified_time", "LastModifiedTime"),
       Field("is_inline", "IsInline") >>

\* attachments.py:127-130: FileAttachment.FIELDS
FileAttachment_FIELDS ==
    Attachment_FIELDS \o
    << Field("is_contact_photo", "IsContactPhoto"),
       Field("_content", "Content") >>

\* cls.FIELDS
FIELDS(cls) ==
    IF cls \in IdClasses THEN ItemId_FIELDS(cls)
    ELSE IF cls = "Mailbox" THEN Mailbox_FIELDS
    ELSE FileAttachment_FIELDS

\* the names of the declared fields of a class
FieldNames(cls) == {FIELDS(cls)[k].name : k \in DOMAIN FIELDS(cls)}

\* cls.__slots__ (properties.py:211, 275; attachments.py:50-51, 132): the
\* attributes of an instance
Slots(cls) ==
    IF cls = "FileAttachment" THEN FieldNames(cls) \cup {"parent_item"}
    ELSE FieldNames(cls)

\* properties.py:84, 246, 254: NAMESPACE
NAMESPACE(cls) ==
    IF cls \in {"ParentItemId", "RootItemId"} THEN "MNS" ELSE "TNS"

\* properties.py:124-129: request_tag, the prefixed name
request_tag(cls) ==
    [prefix |-> IF NAMESPACE(cls) = "TNS" THEN "t" ELSE "m", name |-> cls]

\* properties.py:131-133: response_tag of a class, the qualified name
EWSElement_response_tag(cls) == [ns |-> NAMESPACE(cls), name |-> cls]

\* util.create_element: an element whose tag is the qualified name of the
\* prefixed name
create_element(tag) ==
    [ns |-> IF tag.prefix = "t" THEN "TNS" ELSE "MNS", name |-> tag.name]

\* ------------------------------------------------------------- __init__
\* properties.py:89-93: every declared field takes its keyword argument or
\* None; keyword arguments left over raise TypeError. Result: [exc, ent]
EWSElement_init(cls, kwargs) ==
    IF DOMAIN kwargs \subseteq FieldNames(cls)
    THEN [exc |-> None,
          ent |-> [n \in FieldNames(cls) |->
                     IF n \in DOMAIN kwargs THEN kwargs[n] ELSE NoneObj]]
    ELSE [exc |-> "TypeError", ent |-> NoneObj]

\* properties.py:213-217: ItemId.__init__(*args, **kwargs): without keyword
\* arguments the positional ones are zipped with the slots
ItemId_init(cls, args, kwargs) ==
    IF DOMAIN kwargs = {}
    THEN EWSElement_init(cls,
            [n \in {<<"id", "changekey">>[k] : k \in (DOMAIN args) \cap {1, 2}}
               |-> IF n = "id" THEN args[1] ELSE args[2]])
    ELSE EWSElement_init(cls, kwargs)

\* attachments.py:53-55 and 134-136: FileAttachment.__init__ moves content
\* to _content and Attachment.__init__ pops parent_item
FileAttachment_init(kwargs) ==
    LET cont == IF "content" \in DOMAIN kwargs
                THEN kwargs["content"] ELSE NoneObj
        parent == IF "parent_item" \in DOMAIN kwargs
                  THEN kwargs["parent_item"] ELSE NoneObj
        rest == [n \in ((DOMAIN kwargs) \ {"content", "parent_item"})
                          \cup {"_content"} |->
                   IF n = "_content" THEN cont ELSE kwargs[n]]
        r == EWSElement_init("FileAttachment", rest)
    IN  IF r.exc # None THEN r
        ELSE [exc |-> None,
              ent |-> [n \in Slots("FileAttachment") |->
                         IF n = "parent_item" THEN parent ELSE r.ent[n]]]

\* a variant of init: a Choice value outside the choices is refused at
\* construction
init_validating(cls, args, kwargs) ==
    IF /\ cls = "Mailbox" /\ "mailbox_type" \in DOMAIN kwargs
       /\ kwargs["mailbox_type"] # NoneObj
       /\ kwargs["mailbox_type"].text \notin MAILBOX_TYPES
    THEN [exc |-> "ValueError", ent |-> NoneObj]
    ELSE IF cls \in IdClasses THEN ItemId_init(cls, args, kwargs)
    ELSE IF cls = "FileAttachment" THEN FileAttachment_init(kwargs)
    ELSE EWSElement_init(cls, kwargs)

\* cls(*args, **kwargs)
init(cls, args, kwargs) ==
    IF cls \in IdClasses THEN ItemId_init(cls, args, kwargs)
    ELSE IF cls = "FileAttachment" THEN FileAttachment_init(kwargs)
    ELSE EWSElement_init(cls, kwargs)

\* ---------------------------------------------------------------- clean
\* the field's validator (f.clean): an absent value becomes the default, or
\* is refused when the field is required and has none; a value outside the
\* choices is refused. Result: [exc, val]
field_clean(f, value) ==
    IF value = NoneObj
    THEN IF f.is_required /\ f.default = NoneObj
         THEN [exc |-> "ValueError", val |-> value]
         ELSE [exc |-> None, val |-> f.default]
    ELSE IF f.choices # {} /\ value.text \notin f.choices
    THEN [exc |-> "ValueError", val |-> value]
    ELSE [exc |-> None, val |-> value]

\* properties.py:97-99: the loop of clean over the fields fs; the values
\* cleaned before a failure stay written. Result: [exc, ent]
RECURSIVE clean_fields(_, _)
clean_fields(fs, ent) ==
    IF fs = << >> THEN [exc |-> None, ent |-> ent]
    ELSE LET f == Head(fs)
             c == field_clean(f, ent[f.name])
         IN  IF c.exc # None THEN [exc |-> c.exc, ent |-> ent]
             ELSE clean_fields(Tail(fs), [ent EXCEPT ![f.name] = c.val])

\* properties.py:95: EWSElement.clean(self) takes no argument
EWSElement_clean_params == {}

\* properties.py:95-99: EWSElement.clean called with the keyword arguments
\* kwargs
EWSElement_clean(kwargs, cls, ent) ==
    IF kwargs # EWSElement_clean_params
    THEN [exc |-> "TypeError", ent |-> ent]
    ELSE clean_fields(FIELDS(cls), ent)

\* properties.py:277-281: Mailbox.clean; None and the empty string are
\* falsy
Mailbox_clean(cls, ent) ==
    LET c == EWSElement_clean({}, cls, ent) IN
    IF c.exc # None THEN c
    ELSE IF /\ c.ent.email_address \in {NoneObj, text("")}
            /\ c.ent.item_id = NoneObj
    THEN [exc |-> "ValueError", ent |-> c.ent]
    ELSE c

\* mimetypes.guess_type(name)[0] or 'application/octet-stream'
\* (attachments.py:63)
guess_type(name) ==
    IF name = text("a.txt") THEN text("text/plain")
    ELSE text("application/octet-stream")

\* attachments.py:57-64: Attachment.clean(self, version=None): the parent
\* item is an Item, the content type is guessed from the name, and
\* EWSElement.clean is called with version=version
Attachment_clean(cls, ent) ==
    IF ent.parent_item # NoneObj /\ "item" \notin DOMAIN ent.parent_item
    THEN [exc |-> "AssertionError", ent |-> ent]
    ELSE LET guessed ==
               IF ent.content_type = NoneObj /\ ent.name # NoneObj
               THEN [ent EXCEPT !.content_type = guess_type(ent.name)]
               ELSE ent
         IN  EWSElement_clean({"version"}, cls, guessed)

\* self.clean()
clean(cls, ent) ==
    IF cls = "Mailbox" THEN Mailbox_clean(cls, ent)
    ELSE IF cls = "FileAttachment" THEN Attachment_clean(cls, ent)
    ELSE EWSElement_clean({}, cls, ent)

\* --------------------------------------------------------------- to_xml
\* no attributes
NoAttrib == [a \in {} |-> ""]

\* properties.py:219-225: ItemId.to_xml: clean, then the two attributes.
\* Result: [exc, ent, xml]
ItemId_to_xml(cls, ent) ==
    LET c == clean(cls, ent) IN
    IF c.exc # None THEN [exc |-> c.exc, ent |-> c.ent, xml |-> NoneObj]
    ELSE [exc |-> None, ent |-> c.ent,
          xml |-> [tag |-> create_element(request_tag(cls)),
                   attrib |-> (ID_ATTR(cls) :> c.ent.id.text)
                              @@ (CHANGEKEY_ATTR(cls) :> c.ent.changekey.text),
                   children |-> << >>]]

\* the field's encoder (f.to_xml): the element of an entity value, or an
\* element named by the field with the value as text
field_to_xml(f, value) ==
    IF f.name = "item_id" THEN ItemId_to_xml("ItemId", value).xml
    ELSE [tag |-> [ns |-> "TNS", name |-> f.field_uri],
          attrib |-> NoAttrib, children |-> << >>, text |-> value.text]

\* properties.py:115-121: the loop of to_xml over the fields fs
RECURSIVE to_xml_children(_, _)
to_xml_children(fs, ent) ==
    IF fs = << >> THEN << >>
    ELSE LET f == Head(fs)
             value == ent[f.name]
         IN  IF f.is_read_only
             THEN to_xml_children(Tail(fs), ent)
             ELSE IF value = NoneObj \/ (f.is_list /\ value = << >>)
             THEN to_xml_children(Tail(fs), ent)
             ELSE <<field_to_xml(f, value)>> \o to_xml_children(Tail(fs), ent)

\* properties.py:110-122: EWSElement.to_xml. Result: [exc, ent, xml]
EWSElement_to_xml(cls, ent) ==
    LET c == clean(cls, ent) IN
    IF c.exc # None THEN [exc |-> c.exc, ent |-> c.ent, xml |-> NoneObj]
    ELSE [exc |-> None, ent |-> c.ent,
          xml |-> [tag |-> create_element(request_tag(cls)),
                   attrib |-> NoAttrib,
                   children |-> to_xml_children(FIELDS(cls), c.ent)]]

\* self.to_xml(version)
to_xml(cls, ent) ==
    IF cls \in IdClasses THEN ItemId_to_xml(cls, ent)
    ELSE EWSElement_to_xml(cls, ent)

\* ------------------------------------------------------------- from_xml
\* elem.get(attr)
get(elem, attr) ==
    IF attr \in DOMAIN elem.attrib THEN text(elem.attrib[attr]) ELSE NoneObj

\* properties.py:227-234: ItemId.from_xml. Result: [exc, ent]
ItemId_from_xml(cls, elem) ==
    IF elem = NoneObj THEN [exc |-> None, ent |-> NoneObj]
    ELSE IF elem.tag # EWSElement_response_tag(cls)
    THEN [exc |-> "AssertionError", ent |-> NoneObj]
    ELSE EWSElement_init(cls,
            ("id" :> get(elem, ID_ATTR(cls)))
            @@ ("changekey" :> get(elem, CHANGEKEY_ATTR(cls))))

\* elem.find(tag): the first child with the tag, or None
find(elem, tag) ==
    IF \E k \in DOMAIN elem.children : elem.children[k].tag = tag
    THEN elem.children[CHOOSE k \in DOMAIN elem.children :
            /\ elem.children[k].tag = tag
            /\ \A j \in 1..(k-1) : elem.children[j].tag # tag]
    ELSE NoneObj

\* the field's decoder (f.from_xml): the child element of the field, decoded
\* as an entity or as text; None without one
field_from_xml(f, elem) ==
    IF f.name = "item_id"
    THEN ItemId_from_xml("ItemId",
                         find(elem, EWSElement_response_tag("ItemId"))).ent
    ELSE LET child == find(elem, [ns |-> "TNS", name |-> f.field_uri])
         IN  IF child = NoneObj THEN NoneObj ELSE text(child.text)

\* properties.py:101-108: EWSElement.from_xml. Result: [exc, ent]
EWSElement_from_xml(cls, elem) ==
    IF elem = NoneObj THEN [exc |-> None, ent |-> NoneObj]
    ELSE IF elem.tag # EWSElement_response_tag(cls)
    THEN [exc |-> "AssertionError", ent |-> NoneObj]
    ELSE EWSElement_init(cls,
            [n \in FieldNames(cls) |->
               field_from_xml(
                  FIELDS(cls)[CHOOSE k \in DOMAIN FIELDS(cls) :
                                 FIELDS(cls)[k].name = n], elem)])

\* cls.from_xml(elem): the from_xml of ItemId (properties.py:227-234) on
\* the id classes, the one of FileAttachment (attachments.py:168-176), which
\* takes an account as well, on FileAttachment, and the one of EWSElement
\* (properties.py:101-108) on the others
from_xml(cls, elem) ==
    IF cls \in IdClasses THEN ItemId_from_xml(cls, elem)
    ELSE IF cls = "FileAttachment"
    THEN LET r == FileAttachment_from_xml({"elem"}, elem)
         IN  [exc |-> r.exc, ent |-> r.val]
    ELSE EWSElement_from_xml(cls, elem)

\* --------------------------------------------------------------- __eq__
\* a variant of ItemId_eq: the change keys are not compared
ItemId_eq_id_only(self, other) ==
    IF other = NoneObj THEN FALSE
    ELSE self.id = other.id

\* properties.py:236-240: ItemId.__eq__
ItemId_eq(self, other) ==
    IF other = NoneObj THEN FALSE
    ELSE self.id = other.id /\ self.changekey = other.changekey

\* ------------------------------------------------------- entity runs
\* the values a field is given in these runs
FieldVals(cls, name) ==
    IF cls \in IdClasses THEN {text("a"), text("b")}
    ELSE IF name = "email_address" THEN {text("a"), text("")}
    ELSE IF name = "mailbox_type" THEN {text("Mailbox"), text("Bogus")}
    ELSE IF name = "item_id" THEN {[id |-> text("a"), changekey |-> text("b")]}
    ELSE IF name = "attachment_id" THEN {DecodedId}
    ELSE IF name = "name" /\ cls = "FileAttachment" THEN {text("a.txt")}
    ELSE IF name = "size" THEN {int(3)}
    ELSE IF name \in {"is_inline", "is_contact_photo"} THEN {bool(TRUE)}
    ELSE IF name \in {"_content", "content"} THEN {bytes(<<66>>)}
    ELSE IF name = "parent_item" THEN {ItemObj("parent")}
    ELSE {text("a")}

\* the keyword arguments of a construction: values for some of the slots,
\* for the content of a FileAttachment, or for a name that is no field
Kwargs(cls) ==
    LET names == IF cls = "FileAttachment"
                 THEN {"name", "size", "content", "_content", "parent_item"}
                 ELSE Slots(cls)
        given == UNION {[D -> UNION {FieldVals(cls, n) : n \in names}] :
                           D \in SUBSET names}
    IN  {k \in given : \A n \in DOMAIN k : k[n] \in FieldVals(cls, n)}
        \cup {("bogus" :> text("a"))}
        \cup {[n \in (Slots(cls) \ {"_content"}) \cup
                      (IF cls = "FileAttachment" THEN {"content"} ELSE {}) |->
                 CHOOSE v \in FieldVals(cls, n) : TRUE]}

\* the entities an ItemId is compared with
Others ==
    [id : {text("a"), text("b")}, changekey : {text("a"), text("b")}]
    \cup {NoneObj}

InitElem ==
    /\ calc = [op |-> "none"]
    /\ account = Idle /\ changekey = Idle /\ parent_item = Idle
    /\ attachment_id = Idle /\ _content = Idle /\ _item = Idle
    /\ last = Idle /\ ncalls = Idle /\ fields = Idle /\ conc = Idle

\* the entity of the run, when there is one
HasEntity == "ent" \in DOMAIN calc /\ calc.ent # NoneObj

OtherVars ==
    <<account, changekey, parent_item, attachment_id, _content, _item,
      last, ncalls, fields, conc>>

\* cls(*args, **kwargs)
Construct(cls, args, kwargs) ==
    /\ calc' = [op |-> "init", cls |-> cls, args |-> args, kwargs |-> kwargs,
                exc |-> init(cls, args, kwargs).exc,
                ent |-> init(cls, args, kwargs).ent]
    /\ UNCHANGED OtherVars

\* setattr(entity, name, value)
SetAttr(cls, name, value) ==
    /\ HasEntity
    /\ calc.cls = cls
    /\ calc' = [op |-> "setattr", cls |-> calc.cls,
                ent |-> [calc.ent EXCEPT ![name] = value]]
    /\ UNCHANGED OtherVars

\* entity.clean()
Clean ==
    /\ HasEntity
    /\ calc' = [op |-> "clean", cls |-> calc.cls, before |-> calc.ent,
                exc |-> clean(calc.cls, calc.ent).exc,
                ent |-> clean(calc.cls, calc.ent).ent]
    /\ UNCHANGED OtherVars

\* entity.to_xml(version)
ToXml ==
    /\ HasEntity
    /\ calc' = [op |-> "to_xml", cls |-> calc.cls, before |-> calc.ent,
                exc |-> to_xml(calc.cls, calc.ent).exc,
                ent |-> to_xml(calc.cls, calc.ent).ent,
                xml |-> to_xml(calc.cls, calc.ent).xml]
    /\ UNCHANGED OtherVars

\* cls.from_xml(elem) on the element to_xml has returned
FromXml ==
    /\ calc.op = "to_xml" /\ calc.exc = None
    /\ calc' = [op |-> "from_xml", cls |-> calc.cls, before |-> calc.ent,
                xml |-> calc.xml,
                exc |-> from_xml(calc.cls, calc.xml).exc,
                ent |-> from_xml(calc.cls, calc.xml).ent]
    /\ UNCHANGED OtherVars

\* entity == other, on an ItemId, ParentItemId or RootItemId
Eq(other) ==
    /\ HasEntity
    /\ calc.cls \in IdClasses
    /\ calc' = [op |-> "eq", cls |-> calc.cls, ent |-> calc.ent,
                other |-> other, result |-> ItemId_eq(calc.ent, other)]
    /\ UNCHANGED OtherVars

NextElem ==
    \/ \E cls \in Classes : \E kwargs \in Kwargs(cls) :
          Construct(cls, << >>, kwargs)
    \/ \E cls \in IdClasses :
          Construct(cls, <<text("a"), text("b")>>, [n \in {} |-> NoneObj])
    \/ \E cls \in Classes : \E name \in Slots(cls) :
          \E value \in FieldVals(cls, name) \cup {NoneObj} :
             SetAttr(cls, name, value)
    \/ Clean
    \/ ToXml
    \/ FromXml
    \/ \E other \in Others : Eq(other)

SpecElem == InitElem /\ [][NextElem]_vars

\* ====================================================== interleaved calls
\* Two threads, each calling attach or detach once on its own attachment of
\* the one parent item. A call blocks in the service call (attachments.py:
\* 72-75, 95-98); the server mutates the item and issues a new change key
\* while it does, and the handler resumes with the response at lines 76-87,
\* 99-107. Nothing in the handler holds a lock: a thread can be suspended
\* between the assertions (lines 81-82, 103-104), the write of the parent's
\* change key (line 83, 105) and the writes to the attachment (lines 85-87,
\* 106-107). The variable conc holds the position of each thread, the
\* response it waits with, the writes it has still to make, the order in
\* which the threads wrote the change key and returned, and the change key
\* on the server.
Threads == {"t1", "t2"}

\* the attachment a thread works on
AttOf(t) == IF t = "t1" THEN "att1" ELSE "att2"

\* the one result of a CreateAttachment call that left the item with the
\* change key tok
Created(tok) ==
    [tag |-> "FileAttachment",
     attachment_id |-> AttachmentId("attachment-id", ITEM_ID, tok)]

\* the one result of a DeleteAttachment call that left the item with the
\* change key tok
Deleted(tok) == [tag |-> "RootItemId", id |-> ITEM_ID, changekey |-> tok]

InitConc ==
    /\ account \in {None, "account"}
    /\ changekey = "0"
    /\ parent_item \in [Atts -> {None, "item"}]
    /\ attachment_id \in [Atts -> {NoneObj, DecodedId}]
    /\ _content = [a \in Atts |-> NoneObj]
    /\ conc = [pc |-> [t \in Threads |-> "idle"],
               op |-> [t \in Threads |-> None],
               resp |-> [t \in Threads |-> NoneObj],
               exc |-> [t \in Threads |-> None],
               pending |-> [t \in Threads |-> NoneObj],
               server |-> 0,
               wrote |-> << >>,
               finished |-> << >>,
               overlap |-> FALSE]
    /\ _item = Idle /\ last = Idle /\ ncalls = Idle
    /\ calc = Idle /\ fields = Idle

\* attachments.py:68-75 and 91-98: thread t enters op, evaluates the
\* preconditions, and when they pass makes the service call: the server
\* issues the next change key, and the thread waits with the response
Call(t, op) ==
    /\ conc.pc[t] = "idle"
    /\ LET pre == IF op = "attach"
                  THEN attach_precondition(Self(AttOf(t)), Item)
                  ELSE detach_precondition(Self(AttOf(t)), Item)
           tok == ToString(conc.server + 1)
       IN  IF pre # None
           THEN conc' = [conc EXCEPT !.pc[t] = "done", !.op[t] = op,
                                     !.exc[t] = pre]
           ELSE /\ conc.server < MaxTok
                /\ conc' = [conc EXCEPT
                      !.pc[t] = "called", !.op[t] = op,
                      !.server = conc.server + 1,
                      !.resp[t] = IF op = "attach" THEN Created(tok)
                                  ELSE Deleted(tok),
                      !.overlap = conc.overlap \/
                                  \E u \in Threads :
                                     conc.pc[u] \notin {"idle", "done"}]
    /\ UNCHANGED <<account, changekey, parent_item, attachment_id, _content,
                   _item, last, ncalls, calc, fields>>

\* attachments.py:76-82 and 99-104: thread t resumes with its response,
\* decodes it and evaluates the assertions against the parent's change key
\* as it is now. An exception ends the call; otherwise the values of the
\* writes of lines 83-87, 105-107 are fixed, and the writes are still to
\* be made
Check(t) ==
    /\ conc.pc[t] = "called"
    /\ LET a == AttOf(t)
           r == IF conc.op[t] = "attach"
                THEN attach(Self(a), Item, <<conc.resp[t]>>)
                ELSE detach(Self(a), Item, <<conc.resp[t]>>)
       IN  IF r.exc # None
           THEN conc' = [conc EXCEPT !.pc[t] = "done", !.exc[t] = r.exc,
                                     !.finished = Append(conc.finished, t)]
           ELSE conc' = [conc EXCEPT !.pc[t] = "checked", !.pending[t] = r]
    /\ UNCHANGED <<account, changekey, parent_item, attachment_id, _content,
                   _item, last, ncalls, calc, fields>>

\* attachments.py:83 and 105: thread t writes the parent's change key
Write(t) ==
    /\ conc.pc[t] = "checked"
    /\ changekey' = conc.pending[t].changekey
    /\ conc' = [conc EXCEPT !.pc[t] = "written",
                            !.wrote = Append(conc.wrote, t)]
    /\ UNCHANGED <<account, parent_item, attachment_id, _content,
                   _item, last, ncalls, calc, fields>>

\* attachments.py:85-87 and 106-107: thread t writes the parent reference
\* and the attachment id of its attachment, and returns
Store(t) ==
    /\ conc.pc[t] = "written"
    /\ LET a == AttOf(t)
           r == conc.pending[t]
       IN  /\ parent_item' = [parent_item EXCEPT ![a] = r.parent_item]
           /\ attachment_id' = [attachment_id EXCEPT ![a] = r.attachment_id]
    /\ conc' = [conc EXCEPT !.pc[t] = "done",
                            !.finished = Append(conc.finished, t)]
    /\ UNCHANGED <<account, changekey, _content,
                   _item, last, ncalls, calc, fields>>

NextConc ==
    \/ \E t \in Threads, op \in {"attach", "detach"} : Call(t, op)
    \/ \E t \in Threads : Check(t)
    \/ \E t \in Threads : Write(t)
    \/ \E t \in Threads : Store(t)

SpecConc == InitConc /\ [][NextConc]_vars

\* ======================================================= field-name cache
\* Runs of get_field_by_fieldname, add_field and remove_field
\* (properties.py:135-157) on classes related by inheritance. The variable
\* fields holds, for every class, the FIELDS and the _fields_map attribute
\* set on the class itself (NoneObj when the class has none of its own and
\* the attribute is looked up on its bases), and the most recent call. A run
\* makes its calls on the classes of one chain of inheritance from
\* EWSElement down.

\* the most fields named "extra" a class is given, and the largest index
\* they are inserted at
MaxExtra == 1
MaxIdx == 1

\* the classes of these runs: EWSElement (properties.py:80), ItemId and its
\* subclass RootItemId (properties.py:199, 251), Attachment and its subclass
\* FileAttachment (attachments.py:35, 121)
FieldClasses ==
    {"EWSElement", "ItemId", "RootItemId", "Attachment", "FileAttachment"}

\* a run works on the classes of one family: EWSElement, a class derived
\* from it and the subclass of that class
Families == {{"EWSElement", "ItemId", "RootItemId"},
             {"EWSElement", "Attachment", "FileAttachment"}}

\* the base class: class ItemId(EWSElement), class RootItemId(ItemId)
\* (properties.py:199, 251), class Attachment(EWSElement), class
\* FileAttachment(Attachment) (attachments.py:35, 121); EWSElement derives
\* from object (properties.py:80), which has neither attribute
Parent(cls) ==
    IF cls = "RootItemId" THEN "ItemId"
    ELSE IF cls = "FileAttachment" THEN "Attachment"
    ELSE IF cls \in {"ItemId", "Attachment"} THEN "EWSElement"
    ELSE None

\* the names of the fields of a sequence of field descriptors
Names(fs) == [k \in DOMAIN fs |-> fs[k].name]

\* the FIELDS attribute each class body sets: the empty tuple in EWSElement
\* (properties.py:84), a tuple in ItemId (properties.py:206-209), none in
\* RootItemId (properties.py:251-259), a list in Attachment and in
\* FileAttachment (attachments.py:39-48, 127-130). A field is identified by
\* its name.
DeclaredFIELDS ==
    [cls \in FieldClasses |->
       IF cls = "EWSElement"
       THEN [type |-> "tuple", items |-> << >>]
       ELSE IF cls = "ItemId"
       THEN [type |-> "tuple", items |-> Names(ItemId_FIELDS("ItemId"))]
       ELSE IF cls = "Attachment"
       THEN [type |-> "list", items |-> Names(Attachment_FIELDS)]
       ELSE IF cls = "FileAttachment"
       THEN [type |-> "list", items |-> Names(FileAttachment_FIELDS)]
       ELSE NoneObj]

\* getattr(cls, attr) for a class attribute: the one set on the class, or
\* the one of the nearest base that has it; NoneObj when none has it
RECURSIVE getattr(_, _)
getattr(own, cls) ==
    IF own[cls] # NoneObj THEN own[cls]
    ELSE IF Parent(cls) # None THEN getattr(own, Parent(cls))
    ELSE NoneObj

\* the set of the items of a sequence
Range(s) == {s[k] : k \in DOMAIN s}

\* what a call leaves: the exception, the value returned, the attributes
FieldsOutcome(exc, ret, F, m) ==
    [exc |-> exc, ret |-> ret, FIELDS |-> F, _fields_map |-> m]

\* properties.py:135-139: get_field_by_fieldname; hasattr sees the map of
\* a base class, the assignment sets the map of the class itself
get_field_by_fieldname(st, cls, fieldname) ==
    LET m == IF getattr(st._fields_map, cls) = NoneObj
             THEN [st._fields_map EXCEPT
                     ![cls] = [keys |-> Range(getattr(st.FIELDS, cls).items)]]
             ELSE st._fields_map
    IN  IF fieldname \in getattr(m, cls).keys
        THEN FieldsOutcome(None, fieldname, st.FIELDS, m)
        ELSE FieldsOutcome("KeyError", None, st.FIELDS, m)

\* s[0:idx] and s[idx:] of a sequence
SliceTo(s, idx) == SubSeq(s, 1, IF idx < Len(s) THEN idx ELSE Len(s))
SliceFrom(s, idx) == SubSeq(s, idx + 1, Len(s))

\* properties.py:141-148: add_field; a list and a tuple do not add, and
\* delattr removes the map of the class itself only
add_field(st, cls, field, idx) ==
    LET F == getattr(st.FIELDS, cls) IN
    IF F.type # "tuple"
    THEN FieldsOutcome("TypeError", None, st.FIELDS, st._fields_map)
    ELSE FieldsOutcome(None, None,
            [st.FIELDS EXCEPT ![cls] =
               [type |-> "tuple",
                items |-> SliceTo(F.items, idx) \o <<field>>
                          \o SliceFrom(F.items, idx)]],
            [st._fields_map EXCEPT ![cls] = NoneObj])

\* properties.py:150-157: remove_field
remove_field(st, cls, field) ==
    LET F == getattr(st.FIELDS, cls) IN
    FieldsOutcome(None, None,
       [st.FIELDS EXCEPT ![cls] =
          [type |-> "tuple",
           items |-> SelectSeq(F.items, LAMBDA f : f # field)]],
       [st._fields_map EXCEPT ![cls] = NoneObj])

\* the field names the calls are made with
LookupNames == {"id", "changekey", "name", "_content", "extra"}

InitFields ==
    /\ \E family \in Families :
          fields = [FIELDS |-> [cls \in family |-> DeclaredFIELDS[cls]],
                    _fields_map |-> [cls \in family |-> NoneObj],
                    op |-> "none", cls |-> None, name |-> None,
                    exc |-> None, ret |-> None]
    /\ account = Idle /\ changekey = Idle /\ parent_item = Idle
    /\ attachment_id = Idle /\ _content = Idle /\ _item = Idle
    /\ last = Idle /\ ncalls = Idle /\ calc = Idle /\ conc = Idle

\* the call op on cls with outcome r
ApplyFields(op, cls, name, r) ==
    /\ fields' = [FIELDS |-> r.FIELDS, _fields_map |-> r._fields_map,
                  op |-> op, cls |-> cls, name |-> name,
                  exc |-> r.exc, ret |-> r.ret]
    /\ UNCHANGED <<account, changekey, parent_item, attachment_id, _content,
                   _item, last, ncalls, calc, conc>>

GetField(cls, fieldname) ==
    /\ cls \in DOMAIN fields.FIELDS
    /\ ApplyFields("get_field_by_fieldname", cls, fieldname,
                get_field_by_fieldname(fields, cls, fieldname))

AddField(cls, field, idx) ==
    /\ cls \in DOMAIN fields.FIELDS
    /\ Cardinality({k \in DOMAIN getattr(fields.FIELDS, cls).items :
                      getattr(fields.FIELDS, cls).items[k] = field}) < MaxExtra
    /\ ApplyFields("add_field", cls, field, add_field(fields, cls, field, idx))

RemoveField(cls, field) ==
    /\ cls \in DOMAIN fields.FIELDS
    /\ ApplyFields("remove_field", cls, field, remove_field(fields, cls, field))

NextFields ==
    \/ \E cls \in FieldClasses, fieldname \in LookupNames :
          GetField(cls, fieldname)
    \/ \E cls \in FieldClasses, idx \in 0..MaxIdx : AddField(cls, "extra", idx)
    \/ \E cls \in FieldClasses, field \in {"changekey", "_content", "extra"} :
          RemoveField(cls, field)

SpecFields == InitFields /\ [][NextFields]_vars

\* ================================================================ claims
\* the single result of the most recent call, when it returned exactly one
OneResult(l) == Len(l.results) = 1
TheResult(l) == l.results[1]

\* a CreateAttachment result that decodes to an attachment with an id
CreatedId(i) ==
    /\ ~IsException(i) /\ i # NoneObj
    /\ i.tag = "FileAttachment" /\ i.attachment_id # NoneObj

\* a CreateAttachment result that carries the parent's item id as root id
\* and a root change key other than ck
CreatedFor(i, ck) ==
    /\ CreatedId(i)
    /\ i.attachment_id.root_id = ITEM_ID
    /\ i.attachment_id.root_changekey # ck

\* a DeleteAttachment result that carries the parent's item id and a change
\* key other than ck
DeletedFrom(i, ck) ==
    /\ ~IsException(i) /\ i # NoneObj
    /\ i.tag = "RootItemId" /\ i.id = ITEM_ID /\ i.changekey # ck

\* the call l was successful: its preconditions passed, the collaborator
\* made the create or delete and returned the one result of it, with the
\* parent's item id and a change key other than ck, the parent's one
SuccessfulCall(l, ck) ==
    /\ l.op \in {"attach", "detach"} /\ l.calls = 1
    /\ OneResult(l)
    /\ IF l.op = "attach" THEN CreatedFor(TheResult(l), ck)
       ELSE DeletedFrom(TheResult(l), ck)

\* C1 as stated: every successful attach or detach assigns the parent
\* item's change key exactly once, to the change key the collaborator
\* returned for that call; a failed call, a content read and a content
\* assignment leave it as it was. Hence it always equals the change key
\* returned by the most recent successful call.
C1_ChangeKeyFollowsSuccess ==
    [][ IF SuccessfulCall(last', changekey)
        THEN /\ last'.writes = 1
             /\ changekey' = IF last'.op = "attach"
                             THEN TheResult(last').attachment_id.root_changekey
                             ELSE TheResult(last').changekey
        ELSE /\ last'.writes = 0
             /\ changekey' = changekey ]_vars

\* C2: attach on an unattached attachment whose parent has an account, with
\* one result that carries the parent's item id as root id and a root change
\* key other than the parent's, returns with the attachment id present and
\* the parent's change key equal to the returned one.
C2_AttachSucceeds ==
    [][ \A a \in Atts :
          ( /\ last'.op = "attach" /\ last'.att = a
            /\ attachment_id[a] = NoneObj
            /\ parent_item[a] # None /\ account # None
            /\ OneResult(last') /\ CreatedId(TheResult(last'))
            /\ TheResult(last').attachment_id.root_id = ITEM_ID
            /\ TheResult(last').attachment_id.root_changekey # changekey )
          => /\ last'.exc = None
             /\ attachment_id'[a] # NoneObj
             /\ attachment_id'[a].id = TheResult(last').attachment_id.id
             /\ changekey' = TheResult(last').attachment_id.root_changekey
      ]_vars

\* C2 witness: an attach has returned and left the id and the change key
C2_Witness ==
    /\ last.op = "attach" /\ last.exc = None
    /\ attachment_id[last.att] # NoneObj
    /\ TheResult(last).attachment_id.root_id = ITEM_ID
    /\ changekey = TheResult(last).attachment_id.root_changekey

\* C3: attach whose one result carries a root change key equal to the
\* parent's current one raises AssertionError and changes nothing: the
\* attachment id stays absent, the parent reference and the parent's change
\* key stay as they were.
C3_AttachSameChangeKey ==
    [][ \A a \in Atts :
          ( /\ last'.op = "attach" /\ last'.att = a
            /\ OneResult(last') /\ CreatedId(TheResult(last'))
            /\ TheResult(last').attachment_id.root_changekey = changekey )
          => /\ last'.exc = "AssertionError"
             /\ attachment_id'[a] = NoneObj
             /\ attachment_id' = attachment_id
             /\ parent_item' = parent_item
             /\ _content' = _content
             /\ changekey' = changekey
      ]_vars

\* C3 witness: an attach raised AssertionError on a result with the right
\* root id and the parent's own change key
C3_Witness ==
    /\ last.op = "attach" /\ last.exc = "AssertionError"
    /\ OneResult(last) /\ CreatedId(TheResult(last))
    /\ TheResult(last).attachment_id.root_id = ITEM_ID
    /\ TheResult(last).attachment_id.root_changekey = changekey
    /\ attachment_id[last.att] = NoneObj
    /\ parent_item[last.att] = "item"

\* C6: attach on an attachment that an earlier attach has given an id raises
\* ValueError, makes no call, and leaves the attachment id and the parent's
\* change key as they were.
C6_AttachTwice ==
    [][ \A a \in Atts :
          ( /\ attachment_id[a] # NoneObj
            /\ last'.op = "attach" /\ last'.att = a )
          => /\ last'.exc = "ValueError"
             /\ last'.calls = 0 /\ last'.req = NoneObj
             /\ ncalls' = ncalls
             /\ attachment_id' = attachment_id
             /\ changekey' = changekey
      ]_vars

\* C6 witness: attach raised ValueError on an attachment that has an id and
\* a parent with an account
C6_Witness ==
    /\ last.op = "attach" /\ last.exc = "ValueError" /\ last.calls = 0
    /\ attachment_id[last.att] # NoneObj
    /\ attachment_id[last.att].id \in AttIds
    /\ parent_item[last.att] = "item" /\ account # None

\* C7: when the one result of attach, detach or a content read is an
\* exception object, that object is raised, one call has been made, and the
\* attachment id, the parent reference, the content and the parent's change
\* key are as they were.
C7_ErrorRaisedAsIs ==
    [][ ( /\ last'.op \in {"attach", "detach", "content"}
          /\ OneResult(last') /\ IsException(TheResult(last')) )
        => /\ last'.exc = TheResult(last').exception
           /\ last'.calls = 1
           /\ ncalls' = ncalls + 1
           /\ attachment_id' = attachment_id
           /\ parent_item' = parent_item
           /\ _content' = _content
           /\ changekey' = changekey
      ]_vars

\* C7 witness: a content read raised the error the collaborator returned
C7_Witness ==
    /\ last.op = "content" /\ last.calls = 1
    /\ OneResult(last) /\ IsException(TheResult(last))
    /\ last.exc = "ErrorAccessDenied"
    /\ _content[last.att] = NoneObj

\* C8: an attachment id stored on an attachment has no root id and no root
\* change key, and neither has the attachment id sent in a DeleteAttachment
\* or GetAttachment request.
C8_NoRootFields ==
    /\ \A a \in Atts :
          attachment_id[a] # NoneObj =>
             /\ attachment_id[a].root_id = None
             /\ attachment_id[a].root_changekey = None
    /\ ( last.req # NoneObj /\ last.req.service # "CreateAttachment" ) =>
             /\ last.req.items[1].root_id = None
             /\ last.req.items[1].root_changekey = None

\* C8 witness: a DeleteAttachment request has been sent for an attachment id
\* that attach stored
C8_Witness ==
    /\ last.op = "detach" /\ last.calls = 1
    /\ last.req.service = "DeleteAttachment"
    /\ last.req.items[1] = attachment_id[last.att]
    /\ attachment_id[last.att].id \in AttIds

\* the most recent call was a content read of a that fetched the payload
\* and returned
FetchedBy(l, a) ==
    l.op = "content" /\ l.att = a /\ l.exc = None /\ l.calls = 1

\* C4 as stated: after a content read that fetched the payload, the next
\* content read of the same attachment makes no call and returns the same
\* value, also when the fetch resolved to None.
C4_SecondReadNeverCalls ==
    [][ \A a \in Atts :
          ( FetchedBy(last, a) /\ last'.op = "content" /\ last'.att = a )
          => /\ last'.exc = None
             /\ last'.calls = 0
             /\ ncalls' = ncalls
             /\ _content'[a] = _content[a]
      ]_vars

\* C4 amended: after a content read that fetched the payload, the next
\* content read of the same attachment makes no call and returns the same
\* bytes when the fetch gave a byte string (the empty one included); when
\* the fetch resolved to None the next read makes the call again.
C4_SecondReadCallsOnlyAfterNone ==
    [][ \A a \in Atts :
          ( FetchedBy(last, a) /\ last'.op = "content" /\ last'.att = a )
          => IF _content[a] # NoneObj
             THEN /\ last'.exc = None
                  /\ last'.calls = 0
                  /\ ncalls' = ncalls
                  /\ _content'[a] = _content[a]
             ELSE /\ last'.calls = 1
                  /\ ncalls' = ncalls + 1
                  /\ last'.req.service = "GetAttachment"
      ]_vars

\* C4 witness: a content read was served without a call from the bytes an
\* earlier read fetched (only a fetch of "QQ==" yields the byte 65)
C4_Witness ==
    /\ last.op = "content" /\ last.exc = None /\ last.calls = 0
    /\ attachment_id[last.att] # NoneObj
    /\ _content[last.att] = bytes(<<65>>)

\* C5 as stated: detach on an attached attachment whose parent has an
\* account, with one result that carries the parent's item id and a change
\* key other than the parent's, returns with the parent's change key equal
\* to the returned one and the attachment id and the parent reference absent.
C5_DetachSucceeds ==
    [][ \A a \in Atts :
          ( /\ last'.op = "detach" /\ last'.att = a
            /\ attachment_id[a] # NoneObj
            /\ parent_item[a] # None /\ account # None
            /\ OneResult(last') /\ DeletedFrom(TheResult(last'), changekey) )
          => /\ last'.exc = None
             /\ changekey' = TheResult(last').changekey
             /\ attachment_id'[a] = NoneObj
             /\ parent_item'[a] = None
      ]_vars

\* the text of an empty Content node: None as the parser leaves it, or the
\* empty string
EmptyText(t) == t = NoneObj \/ t = str(<< >>)

\* C9 as stated: a content fetch whose one result has an empty Content node
\* returns with empty bytes as the content, and one whose result has no
\* Content node returns with the content None.
C9_EmptyAndAbsentContent ==
    [][ \A a \in Atts :
          ( /\ last'.op = "content" /\ last'.att = a /\ last'.calls = 1
            /\ OneResult(last') /\ TheResult(last') \in GetElems )
          => LET node == TheResult(last').Content IN
             /\ node = NoneObj =>
                   last'.exc = None /\ _content'[a] = NoneObj
             /\ ( node # NoneObj /\ EmptyText(node.text) ) =>
                   last'.exc = None /\ _content'[a] = bytes(<< >>)
      ]_vars

\* C10 as stated: a detach that the collaborator answers with the parent's
\* item id and a new change key returns, and from then on attach and detach
\* on the instance both raise ValueError at their preconditions, before any
\* call.
C10_ConsumedAfterDetach ==
    [][ \A a \in Atts :
          ( /\ last'.op = "detach" /\ last'.att = a
            /\ attachment_id[a] # NoneObj
            /\ parent_item[a] # None /\ account # None
            /\ OneResult(last') /\ DeletedFrom(TheResult(last'), changekey) )
          => LET after == [parent_item |-> parent_item'[a],
                           attachment_id |-> attachment_id'[a],
                           _content |-> _content'[a]]
                 item == [item_id |-> ITEM_ID, changekey |-> changekey',
                          account |-> account']
             IN  /\ last'.exc = None
                 /\ attach_precondition(after, item) = "ValueError"
                 /\ detach_precondition(after, item) = "ValueError"
      ]_vars

\* a DeleteAttachment result that is a RootItemId element
RootItemIdElem(i) ==
    ~IsException(i) /\ i # NoneObj /\ i.tag = "RootItemId"

\* C11 as stated: detach whose one result carries a root id other than the
\* parent's item id, or a change key equal to the parent's current one,
\* raises AssertionError, and the attachment id, the parent reference and
\* the parent's change key stay as they were.
C11_DetachInconsistent ==
    [][ \A a \in Atts :
          ( /\ last'.op = "detach" /\ last'.att = a
            /\ OneResult(last') /\ RootItemIdElem(TheResult(last'))
            /\ \/ TheResult(last').id # ITEM_ID
               \/ TheResult(last').changekey = changekey )
          => /\ last'.exc = "AssertionError"
             /\ attachment_id' = attachment_id
             /\ parent_item' = parent_item
             /\ changekey' = changekey
      ]_vars

\* C12: detach on an attachment that has no attachment id, and attach or
\* detach on an attachment that has no parent item or whose parent item has
\* no account, raise ValueError, make no call, and leave the attachment id,
\* the parent reference, the content and the parent's change key as they
\* were.
C12_PreconditionErrors ==
    [][ \A a \in Atts :
          ( /\ last'.op \in {"attach", "detach"} /\ last'.att = a
            /\ \/ last'.op = "detach" /\ attachment_id[a] = NoneObj
               \/ parent_item[a] = None
               \/ account = None )
          => /\ last'.exc = "ValueError"
             /\ last'.calls = 0 /\ last'.req = NoneObj
             /\ ncalls' = ncalls
             /\ UNCHANGED <<account, changekey, parent_item, attachment_id,
                            _content>>
      ]_vars

\* C12 witness: detach raised ValueError without a call on an attachment
\* that has an attachment id and no parent item
C12_Witness ==
    /\ last.op = "detach" /\ last.exc = "ValueError" /\ last.calls = 0
    /\ attachment_id[last.att] # NoneObj
    /\ parent_item[last.att] = None
    /\ account # None

\* a GetAttachment result that is an ItemAttachment element
ItemAttachmentElem(i) ==
    ~IsException(i) /\ i # NoneObj /\ i.tag = "ItemAttachment"

\* C13 as stated: the first item read of an ItemAttachment that has an
\* attachment id, no cached item and a parent with an account makes one
\* GetAttachment call with include_mime_content true; when the one
\* attachment of the response has no nested item the read raises
\* AssertionError and caches nothing; when it has one the read caches it;
\* and a read of an ItemAttachment that has a cached item makes no call.
C13_LazyItemRead ==
    [][ \A a \in ItemAtts :
          (last'.op = "item" /\ last'.att = a) =>
            /\ ( /\ attachment_id[a] # NoneObj /\ _item[a] = NoneObj
                 /\ parent_item[a] # None /\ account # None )
               => /\ last'.calls = 1 /\ ncalls' = ncalls + 1
                  /\ last'.req.service = "GetAttachment"
                  /\ last'.req.include_mime_content = TRUE
                  /\ ( OneResult(last') /\ ItemAttachmentElem(TheResult(last'))
                       /\ TheResult(last').Item = NoneObj )
                     => /\ last'.exc = "AssertionError"
                        /\ _item' = _item
                  /\ ( OneResult(last') /\ ItemAttachmentElem(TheResult(last'))
                       /\ TheResult(last').Item # NoneObj )
                     => /\ last'.exc = None
                        /\ _item'[a] = TheResult(last').Item
            /\ _item[a] # NoneObj
               => /\ last'.exc = None /\ last'.calls = 0
                  /\ ncalls' = ncalls /\ _item' = _item
      ]_vars

\* the attachments from_xml decodes from a response that carries the
\* attachment id att_id: no parent item, any payload
ServerDecoded(att_id) ==
    {[parent_item |-> None, attachment_id |-> att_id, _content |-> c] :
        c \in Bytes \cup {NoneObj}}

\* C15: two attachments without an attachment id are equal exactly when
\* their attributes other than the parent item are equal; two attachments
\* with an attachment id are equal exactly when the attachment ids are
\* equal; and an attachment with an attachment id equals every
\* server-decoded attachment that carries the same id, whatever its payload.
C15_AttachmentEquality ==
    \A a \in Atts, b \in Atts :
      /\ (attachment_id[a] = NoneObj /\ attachment_id[b] = NoneObj)
         => ( Attachment_eq(Self(a), Self(b))
                <=> _content[a] = _content[b] )
      /\ (attachment_id[a] # NoneObj /\ attachment_id[b] # NoneObj)
         => ( Attachment_eq(Self(a), Self(b))
                <=> attachment_id[a] = attachment_id[b] )
      /\ attachment_id[a] # NoneObj
         => \A d \in ServerDecoded(attachment_id[a]) :
               Attachment_eq(Self(a), d) /\ Attachment_eq(d, Self(a))

\* C15 witness: attach has stored an id on an attachment that has a payload
\* and a parent item; the attachment equals the decoded attachment of the
\* same id that has neither
C15_Witness ==
    /\ last.op = "attach" /\ last.exc = None
    /\ attachment_id[last.att] # NoneObj
    /\ attachment_id[last.att].id \in AttIds
    /\ _content[last.att] = bytes(<<66>>)
    /\ parent_item[last.att] = "item"
    /\ Attachment_eq(Self(last.att),
                     [parent_item |-> None,
                      attachment_id |-> attachment_id[last.att],
                      _content |-> NoneObj])

\* every declared field of the entity has a value, and the values are valid:
\* a choice is one of the choices
Populated(cls, ent) ==
    \A k \in DOMAIN FIELDS(cls) :
       LET f == FIELDS(cls)[k] IN
       /\ ent[f.name] # NoneObj
       /\ f.choices # {} => ent[f.name].text \in f.choices

\* C14 as stated: to_xml of an entity whose declared fields are all
\* populated with valid values returns an element, and from_xml of that
\* element returns an entity with the same value in every declared field,
\* the read-only ones included.
C14_RoundTrip ==
    (calc.op = "to_xml" /\ Populated(calc.cls, calc.before))
    => /\ calc.exc = None
       /\ from_xml(calc.cls, calc.xml).exc = None
       /\ \A n \in FieldNames(calc.cls) :
             from_xml(calc.cls, calc.xml).ent[n] = calc.before[n]

\* the values of the entity pass the validators of clean: required fields
\* have a value or a default, a choice is one of the choices, a Mailbox has
\* an email address or an item id
Valid(cls, ent) ==
    /\ \A k \in DOMAIN FIELDS(cls) :
          LET f == FIELDS(cls)[k] IN
          /\ (f.is_required /\ f.default = NoneObj) => ent[f.name] # NoneObj
          /\ (f.choices # {} /\ ent[f.name] # NoneObj)
                => ent[f.name].text \in f.choices
    /\ cls = "Mailbox" =>
          \/ ent.email_address \notin {NoneObj, text("")}
          \/ ent.item_id # NoneObj

\* the indexes of the declared fields that are not read-only and have a
\* value in ent
Eligible(cls, ent) ==
    {k \in DOMAIN FIELDS(cls) :
        /\ ~FIELDS(cls)[k].is_read_only
        /\ ent[FIELDS(cls)[k].name] # NoneObj}

\* C16 as stated: the generic to_xml of an entity with valid values returns
\* an element with one child per declared field that is not read-only and
\* has a value, and the children follow the declaration order of their
\* fields.
C16_EncodeOrder ==
    ( /\ calc.op = "to_xml" /\ calc.cls \notin IdClasses
      /\ Valid(calc.cls, calc.before) )
    => /\ calc.exc = None
       /\ Len(calc.xml.children) = Cardinality(Eligible(calc.cls, calc.ent))
       /\ \A k \in Eligible(calc.cls, calc.ent) :
             calc.xml.children[
                Cardinality({j \in Eligible(calc.cls, calc.ent) : j <= k})
             ].tag.name = FIELDS(calc.cls)[k].field_uri

\* C17: an ItemId, ParentItemId or RootItemId equals another one exactly
\* when the ids are equal and the change keys are equal, and it does not
\* equal None.
C17_ItemIdEquality ==
    calc.op = "eq" =>
       /\ calc.other = NoneObj => calc.result = FALSE
       /\ calc.other # NoneObj =>
             ( calc.result = TRUE
                 <=> /\ calc.ent.id = calc.other.id
                     /\ calc.ent.changekey = calc.other.changekey )

\* C17 witness: a RootItemId compared unequal to an identity with the same
\* id and another change key
C17_Witness ==
    /\ calc.op = "eq" /\ calc.cls = "RootItemId"
    /\ calc.other # NoneObj
    /\ calc.ent.id = calc.other.id /\ calc.ent.id # NoneObj
    /\ calc.ent.changekey # calc.other.changekey
    /\ calc.result = FALSE

\* C18: a construction raises only TypeError and only when a keyword
\* argument names no declared field; the values given for the declared
\* fields of an ItemId or a Mailbox are stored as given, a Choice value
\* outside the choices included; clean and to_xml of a Mailbox that holds
\* such a Choice value raise ValueError.
C18_ConstructionNeverValidates ==
    /\ calc.op = "init" =>
          /\ calc.exc # None =>
                /\ calc.exc = "TypeError"
                /\ \E n \in DOMAIN calc.kwargs : n \notin FieldNames(calc.cls)
          /\ (calc.exc = None /\ calc.cls # "FileAttachment") =>
                \A n \in DOMAIN calc.kwargs : calc.ent[n] = calc.kwargs[n]
    /\ ( /\ calc.op \in {"clean", "to_xml"} /\ calc.cls = "Mailbox"
         /\ calc.before.mailbox_type # NoneObj
         /\ calc.before.mailbox_type.text \notin MAILBOX_TYPES )
       => calc.exc = "ValueError"

\* C18 witness: clean has raised ValueError on a Mailbox that holds a Choice
\* value outside the choices
C18_Witness ==
    /\ calc.op = "clean" /\ calc.cls = "Mailbox"
    /\ calc.before.mailbox_type = text("Bogus")
    /\ calc.ent.mailbox_type = text("Bogus")
    /\ calc.exc = "ValueError"

\* both threads have made their service call and have returned from it
BothComplete ==
    /\ \A t \in Threads : conc.pc[t] = "done"
    /\ Len(conc.finished) = 2

\* the threads whose attach returned without an exception, in the order in
\* which they returned
Succeeded ==
    SelectSeq(conc.finished,
              LAMBDA t : conc.op[t] = "attach" /\ conc.exc[t] = None)

\* the change key the server issued for the mutation of thread t
TokenOf(t) ==
    IF conc.op[t] = "attach" THEN conc.resp[t].attachment_id.root_changekey
    ELSE conc.resp[t].changekey

\* C19 as stated: after two interleaved attach or detach calls have both
\* completed, the parent's change key is the one the server issued for the
\* later of the two mutations, and neither call has failed an assertion.
C19_LaterTokenWins ==
    BothComplete =>
       /\ changekey = ToString(conc.server)
       /\ \A t \in Threads : conc.exc[t] # "AssertionError"

\* C19 amended: after two interleaved attach or detach calls have both
\* completed, neither has failed an assertion, a call has assigned the
\* parent's change key exactly when it returned without raising, and the
\* parent's change key is the one of the response of the call that assigned
\* it last (the one it had before the calls when neither assigned it),
\* whichever call returned last; when the calls did not overlap and both
\* returned without raising, it is the one the server issued for the later
\* of the two mutations.
C19_LastWriteWins ==
    BothComplete =>
       /\ \A t \in Threads : conc.exc[t] # "AssertionError"
       /\ \A t \in Threads :
             conc.exc[t] = None
                <=> Len(SelectSeq(conc.wrote, LAMBDA u : u = t)) = 1
       /\ changekey =
             IF conc.wrote = << >> THEN "0"
             ELSE TokenOf(conc.wrote[Len(conc.wrote)])
       /\ (~conc.overlap /\ \A t \in Threads : conc.exc[t] = None)
             => changekey = ToString(conc.server)

\* C19 witness: two attach calls overlapped, both returned, and the parent
\* holds the change key of the earlier mutation although the call that
\* made the later mutation returned last
C19_Witness ==
    /\ BothComplete /\ conc.overlap
    /\ Len(Succeeded) = 2
    /\ conc.server = 2
    /\ changekey = "1"
    /\ TokenOf(conc.finished[2]) = "2"

\* C20 as stated: get_field_by_fieldname(name) on a class returns the field
\* called name when the current FIELDS of the class has one, and raises
\* KeyError when it has none, after any sequence of get_field_by_fieldname,
\* add_field and remove_field calls on the class, its parent and its child.
C20_CacheCoherent ==
    fields.op = "get_field_by_fieldname" =>
       IF fields.name \in Range(getattr(fields.FIELDS, fields.cls).items)
       THEN fields.exc = None /\ fields.ret = fields.name
       ELSE fields.exc = "KeyError"

\* the payload the attachment a holds: the content of a FileAttachment, the
\* nested item of an ItemAttachment
Payload(a) == IF a \in Atts THEN _content[a] ELSE _item[a]

\* C21: a read of content or item leaves the attachment id, the parent
\* reference and the parent's change key as they were; and on an attachment
\* that has no attachment id, or that holds a payload, the read returns
\* without an exception, makes no call, and leaves the payload it returns
\* as it was.
C21_ReadFrame ==
    [][ \A a \in PayloadAtts :
          ( /\ last'.op = (IF a \in Atts THEN "content" ELSE "item")
            /\ last'.att = a )
          => /\ attachment_id' = attachment_id
             /\ parent_item' = parent_item
             /\ changekey' = changekey
             /\ account' = account
             /\ (attachment_id[a] = NoneObj \/ Payload(a) # NoneObj)
                => /\ last'.exc = None
                   /\ last'.calls = 0 /\ last'.req = NoneObj
                   /\ ncalls' = ncalls
                   /\ _content' = _content /\ _item' = _item
      ]_vars

\* C21 witness: an item read made no call on an ItemAttachment that has an
\* attachment id and holds the item an earlier read fetched, after a content
\* read has fetched the payload of the FileAttachment
C21_Witness ==
    /\ last.op = "item" /\ last.exc = None /\ last.calls = 0
    /\ attachment_id[last.att] = DecodedId
    /\ _item[last.att] = ItemObj("fetched")
    /\ attachment_id["att1"] = DecodedId
    /\ _content["att1"] = bytes(<<65>>)
    /\ changekey = "0"

====
